---- MODULE Spec2Model ----
(***************************************************************************)
(* Model of the scheduled thread pool of src/src/lib.rs: the time-ordered  *)
(* job queue guarded by one mutex, the condition variable, the worker      *)
(* loop (get_job / run_job), the five job variants and their reschedule    *)
(* rules, the cancellation flag and the three drop policies.               *)
(*                                                                         *)
(* Every region the code runs under the mutex is one atomic action.  What  *)
(* a thread does outside the mutex (the cancellation check, the callable,  *)
(* the two statements of drop) is a separate step each, so that cancel,    *)
(* drop and the clock interleave with it.                                  *)
(***************************************************************************)
EXTENDS Bags, FiniteSets, Integers, Sequences, TLC

\* ---- bounds -------------------------------------------------------------
NumWorkers == 2      \* num_threads given to the constructor
MaxJobs == 2         \* number of submissions through the facade
MaxRecurring == 1    \* number of those that are recurring jobs
MaxTime == 2         \* last instant the clock reaches
MaxDelay == 1        \* largest (initial) delay a caller passes
MaxRate == 1         \* largest rate / delay of a recurring job

Workers == 1..NumWorkers
Tokens == 1..MaxJobs
Delays == 0..MaxDelay
Rates == 1..MaxRate

\* ---- OnPoolDropBehavior (lib.rs 105-124) --------------------------------
CompletePendingScheduled == "CompletePendingScheduled"
DiscardPendingScheduled == "DiscardPendingScheduled"
RunPendingScheduledImmediately == "RunPendingScheduledImmediately"
OnPoolDropBehavior ==
  {CompletePendingScheduled, DiscardPendingScheduled, RunPendingScheduledImmediately}

\* ---- JobType and Job (lib.rs 32-50) -------------------------------------
\* type_ is the variant, rate the payload of FixedRate (rate) and FixedDelay
\* (delay), time the due instant, canceled the shared flag the job points to.
Once == "Once"
FixedRate == "FixedRate"
DynamicRate == "DynamicRate"
FixedDelay == "FixedDelay"
DynamicDelay == "DynamicDelay"
JobType == {Once, FixedRate, DynamicRate, FixedDelay, DynamicDelay}
Recurring == JobType \ {Once}

Job(ty, r, t, c) == [type_ |-> ty, rate |-> r, time |-> t, canceled |-> c]
NoJob == [type_ |-> "None", rate |-> 0, time |-> 0, canceled |-> 0]

VARIABLES
  now,               \* Instant::now(), the monotonic clock
  queue,             \* InnerPool.queue, a bag of Jobs
  shutdown,          \* InnerPool.shutdown
  on_drop_behavior,  \* InnerPool.on_drop_behavior
  canceled,          \* the AtomicBool of every token handed out
  nextToken,         \* the next token a submission creates
  workers,           \* per worker thread: where it is, the Job it owns, its wake-up deadline
  pool,              \* the facade: "alive", "dropping" (shutdown set, notify pending), "dropped"
  typeOf,            \* history: the variant each token was submitted as
  delayOf,           \* history: the delay each Once job was given
  panicked           \* history: the tokens whose callable panicked

vars == <<now, queue, shutdown, on_drop_behavior, canceled, nextToken,
          workers, pool, typeOf, delayOf, panicked>>

\* ---- the heap (lib.rs 58-63, BinaryHeap) --------------------------------
Jobs(q) == BagToSet(q)

\* Job::cmp reversed on time: the heap's maximum is a job of least time.
IsGreatest(j, q) == \A k \in Jobs(q) : j.time <= k.time

\* Variant of Peek for a heap ordered on time without the reversal.
Peek_Latest(q) == {j \in Jobs(q) : \A k \in Jobs(q) : j.time >= k.time}

\* Variant of Peek for a heap whose order ignores the due time.
Peek_Unordered(q) == Jobs(q)

\* The jobs BinaryHeap::peek / pop may return: ties are broken arbitrarily.
Peek(q) == {j \in Jobs(q) : IsGreatest(j, q)}

PeekTime(q) == (CHOOSE j \in Peek(q) : TRUE).time

\* a worker at the top of get_job's loop, owning no job
Idle == [pc |-> "get_job", job |-> NoJob, deadline |-> 0]

\* ---- Condvar::notify_all ------------------------------------------------
\* Variant of NotifyAll that wakes one waiting worker only (notify_one).
NotifyAll_One(ws) ==
  IF \E w \in DOMAIN ws : ws[w].pc \in {"wait", "wait_until"}
  THEN [ws EXCEPT ![CHOOSE w \in DOMAIN ws : ws[w].pc \in {"wait", "wait_until"}] = Idle]
  ELSE ws

NotifyAll(ws) ==
  [w \in DOMAIN ws |->
     IF ws[w].pc \in {"wait", "wait_until"}
     THEN Idle
     ELSE ws[w]]

\* ---- SharedPool::run (lib.rs 85-99) -------------------------------------
\* Variant of ShouldNotify that notifies only for a push onto an empty queue.
ShouldNotify_OnlyWhenEmpty(q, job) == q = EmptyBag

\* Variant of ShouldNotify that also notifies for a job due at the same time
\* as the earliest queued job.
ShouldNotify_NonStrict(q, job) ==
  IF q = EmptyBag THEN TRUE ELSE PeekTime(q) >= job.time

ShouldNotify(q, job) ==
  IF q = EmptyBag THEN TRUE ELSE PeekTime(q) > job.time

\* Variant of SharedPoolRun without the early return on shutdown.
SharedPoolRun_NoShutdownCheck(q, sd, ws, job) ==
  [queue |-> q (+) SetToBag({job}),
   workers |-> IF ShouldNotify(q, job) THEN NotifyAll(ws) ELSE ws]

SharedPoolRun(q, sd, ws, job) ==
  IF sd
  THEN [queue |-> q, workers |-> ws]
  ELSE [queue |-> q (+) SetToBag({job}),
        workers |-> IF ShouldNotify(q, job) THEN NotifyAll(ws) ELSE ws]

\* ---- Worker::get_job, one evaluation of the match (lib.rs 389-410) ------
\* Variant of Need that breaks out of the loop for any queued job.
Need_NoDueCheck(q, sd, beh, t) ==
  IF q = EmptyBag
  THEN IF sd THEN "ReturnNone" ELSE "Wait"
  ELSE IF sd /\ beh = DiscardPendingScheduled THEN "ReturnNone"
       ELSE "Break"

\* Variant of Need without the DiscardPendingScheduled arm.
Need_NoDiscardArm(q, sd, beh, t) ==
  IF q = EmptyBag
  THEN IF sd THEN "ReturnNone" ELSE "Wait"
  ELSE IF sd /\ beh = RunPendingScheduledImmediately THEN "Break"
       ELSE IF PeekTime(q) <= t THEN "Break"
       ELSE "WaitTimeout"

\* Variant of Need without the RunPendingScheduledImmediately arm.
Need_NoImmediateArm(q, sd, beh, t) ==
  IF q = EmptyBag
  THEN IF sd THEN "ReturnNone" ELSE "Wait"
  ELSE IF sd /\ beh = DiscardPendingScheduled THEN "ReturnNone"
       ELSE IF PeekTime(q) <= t THEN "Break"
       ELSE "WaitTimeout"

\* Variant of Need that returns None on shutdown whatever the queue holds.
Need_NoneOnShutdown(q, sd, beh, t) ==
  IF sd /\ beh # RunPendingScheduledImmediately THEN "ReturnNone"
  ELSE IF q = EmptyBag
  THEN IF sd THEN "ReturnNone" ELSE "Wait"
  ELSE IF sd /\ beh = RunPendingScheduledImmediately THEN "Break"
       ELSE IF PeekTime(q) <= t THEN "Break"
       ELSE "WaitTimeout"

Need(q, sd, beh, t) ==
  IF q = EmptyBag
  THEN IF sd THEN "ReturnNone" ELSE "Wait"
  ELSE IF sd /\ beh = DiscardPendingScheduled THEN "ReturnNone"
       ELSE IF sd /\ beh = RunPendingScheduledImmediately THEN "Break"
       ELSE IF PeekTime(q) <= t THEN "Break"
       ELSE "WaitTimeout"

\* ---- Worker::run_job, the cancellation check (lib.rs 424-426) -----------
\* Variant of IsCanceled that never sees the flag.
IsCanceled_Never(job, flags) == FALSE

\* Variant of IsCanceled that honours the flag for Once jobs only.
IsCanceled_OnceOnly(job, flags) == job.type_ = Once /\ flags[job.canceled]

\* Variant of IsCanceled that reads the flag of recurring jobs only.
IsCanceled_RecurringOnly(job, flags) == job.type_ \in Recurring /\ flags[job.canceled]

IsCanceled(job, flags) == flags[job.canceled]

\* ---- Worker::run_job, the job built after the callable returned ---------
\* ret is what the callable returned: 0 for the unit-returning variants and
\* for None, a duration d >= 1 for Some(d).
\* Variant of Reschedules where a dynamic job is rescheduled whatever its
\* callable returned.
Reschedules_Always(job, ret) == job.type_ \in Recurring

Reschedules(job, ret) ==
  \/ job.type_ \in {FixedRate, FixedDelay}
  \/ job.type_ \in {DynamicRate, DynamicDelay} /\ ret > 0

\* Variant of NewJob where the rate variants count from the completion time.
NewJob_RateFromNow(job, ret, t) ==
  CASE job.type_ = FixedRate -> Job(FixedRate, job.rate, t + job.rate, job.canceled)
    [] job.type_ = DynamicRate -> Job(DynamicRate, 0, t + ret, job.canceled)
    [] job.type_ = FixedDelay -> Job(FixedDelay, job.rate, t + job.rate, job.canceled)
    [] job.type_ = DynamicDelay -> Job(DynamicDelay, 0, t + ret, job.canceled)

\* Variant of NewJob where the delay variants count from the previous due time.
NewJob_DelayFromDue(job, ret, t) ==
  CASE job.type_ = FixedRate -> Job(FixedRate, job.rate, job.time + job.rate, job.canceled)
    [] job.type_ = DynamicRate -> Job(DynamicRate, 0, job.time + ret, job.canceled)
    [] job.type_ = FixedDelay -> Job(FixedDelay, job.rate, job.time + job.rate, job.canceled)
    [] job.type_ = DynamicDelay -> Job(DynamicDelay, 0, job.time + ret, job.canceled)

NewJob(job, ret, t) ==
  CASE job.type_ = FixedRate -> Job(FixedRate, job.rate, job.time + job.rate, job.canceled)
    [] job.type_ = DynamicRate -> Job(DynamicRate, 0, job.time + ret, job.canceled)
    [] job.type_ = FixedDelay -> Job(FixedDelay, job.rate, t + job.rate, job.canceled)
    [] job.type_ = DynamicDelay -> Job(DynamicDelay, 0, t + ret, job.canceled)

\* ---- Worker::run, catch_unwind around run_job (lib.rs 375-378) ----------
\* Variant of CatchUnwind where the panic ends the worker thread.
CatchUnwind_ThreadDies(job, t) == [pc |-> "terminated", job |-> NoJob, deadline |-> 0]

\* Variant of CatchUnwind where only the callable is guarded, so that the
\* rest of run_job still builds and submits the next Job.
CatchUnwind_ThenReschedule(job, t) ==
  IF job.type_ \in Recurring
  THEN [pc |-> "reschedule", job |-> NewJob(job, 1, t), deadline |-> 0]
  ELSE Idle

\* The unwinding leaves run_job, so the job is dropped with its stack frame
\* and the worker is back at the head of its loop.
CatchUnwind(job, t) == Idle

\* ---- Init: ScheduledThreadPool::new_inner (lib.rs 193-223) --------------
Init ==
  /\ now = 0
  /\ queue = EmptyBag
  /\ shutdown = FALSE
  /\ on_drop_behavior \in OnPoolDropBehavior
  /\ canceled = [c \in Tokens |-> FALSE]
  /\ nextToken = 1
  /\ workers = [w \in Workers |-> Idle]
  /\ pool = "alive"
  /\ typeOf = [c \in Tokens |-> "None"]
  /\ delayOf = [c \in Tokens |-> 0]
  /\ panicked = {}

\* ---- the facade's submissions (lib.rs 226-356) --------------------------
Submit(ty, delay, r) ==
  /\ pool = "alive"
  /\ nextToken <= MaxJobs
  /\ ty \in Recurring => Cardinality({c \in Tokens : typeOf[c] \in Recurring}) < MaxRecurring
  /\ LET job == Job(ty, r, now + delay, nextToken)
         res == SharedPoolRun(queue, shutdown, workers, job)
     IN /\ queue' = res.queue
        /\ workers' = res.workers
  /\ delayOf' = [delayOf EXCEPT ![nextToken] = IF ty = Once THEN delay ELSE 0]
  /\ typeOf' = [typeOf EXCEPT ![nextToken] = ty]
  /\ nextToken' = nextToken + 1
  /\ UNCHANGED <<now, shutdown, on_drop_behavior, canceled, pool, panicked>>

execute == Submit(Once, 0, 0)

execute_after == \E d \in Delays \ {0} : Submit(Once, d, 0)

execute_at_fixed_rate == \E d \in Delays, r \in Rates : Submit(FixedRate, d, r)

execute_at_dynamic_rate == \E d \in Delays : Submit(DynamicRate, d, 0)

execute_with_fixed_delay == \E d \in Delays, r \in Rates : Submit(FixedDelay, d, r)

execute_with_dynamic_delay == \E d \in Delays : Submit(DynamicDelay, d, 0)

\* ---- JobHandle::cancel (lib.rs 27-29) -----------------------------------
\* Variant of cancel that also takes the job out of the queue.
cancel_RemovesFromQueue(c) ==
  /\ c < nextToken
  /\ canceled' = [canceled EXCEPT ![c] = TRUE]
  /\ queue' = IF \E j \in Jobs(queue) : j.canceled = c
              THEN queue (-) SetToBag({CHOOSE j \in Jobs(queue) : j.canceled = c})
              ELSE queue
  /\ UNCHANGED <<now, shutdown, on_drop_behavior, nextToken, workers,
                 pool, typeOf, delayOf, panicked>>

cancel(c) ==
  /\ c < nextToken
  /\ canceled' = [canceled EXCEPT ![c] = TRUE]
  /\ UNCHANGED <<now, queue, shutdown, on_drop_behavior, nextToken, workers,
                 pool, typeOf, delayOf, panicked>>

\* ---- Drop for ScheduledThreadPool (lib.rs 138-141) ----------------------
\* The last reference is dropped by a caller thread or by a callable that
\* owns it (test_jobs_stop_after_drop); both statements run in that thread,
\* which is any thread for the rest of the pool.
drop_shutdown ==
  /\ pool = "alive"
  /\ shutdown' = TRUE
  /\ pool' = "dropping"
  /\ UNCHANGED <<now, queue, on_drop_behavior, canceled, nextToken, workers,
                 typeOf, delayOf, panicked>>

\* Variant of drop without the notify_all.
drop_notify_all_Skipped ==
  /\ pool = "dropping"
  /\ pool' = "dropped"
  /\ UNCHANGED <<now, queue, shutdown, on_drop_behavior, canceled, nextToken,
                 workers, typeOf, delayOf, panicked>>

drop_notify_all ==
  /\ pool = "dropping"
  /\ workers' = NotifyAll(workers)
  /\ pool' = "dropped"
  /\ UNCHANGED <<now, queue, shutdown, on_drop_behavior, canceled, nextToken,
                 typeOf, delayOf, panicked>>

\* ---- Worker::get_job (lib.rs 381-421) -----------------------------------
\* Variant of get_job that takes the job it peeked and leaves it in the heap.
get_job_PeekOnly(w) ==
  /\ workers[w].pc = "get_job"
  /\ LET need == Need(queue, shutdown, on_drop_behavior, now) IN
       \/ /\ need = "ReturnNone"
          /\ workers' = [workers EXCEPT ![w] = [pc |-> "terminated", job |-> NoJob, deadline |-> 0]]
       \/ /\ need = "Wait"
          /\ workers' = [workers EXCEPT ![w] = [pc |-> "wait", job |-> NoJob, deadline |-> 0]]
       \/ /\ need = "WaitTimeout"
          /\ workers' = [workers EXCEPT ![w] =
                           [pc |-> "wait_until", job |-> NoJob, deadline |-> PeekTime(queue)]]
       \/ /\ need = "Break"
          /\ \E j \in Peek(queue) :
               workers' = [workers EXCEPT ![w] = [pc |-> "run_job", job |-> j, deadline |-> 0]]
  /\ UNCHANGED <<now, queue, shutdown, on_drop_behavior, canceled, nextToken, pool,
                 typeOf, delayOf, panicked>>

get_job(w) ==
  /\ workers[w].pc = "get_job"
  /\ LET need == Need(queue, shutdown, on_drop_behavior, now) IN
       \/ /\ need = "ReturnNone"
          /\ workers' = [workers EXCEPT ![w] = [pc |-> "terminated", job |-> NoJob, deadline |-> 0]]
          /\ UNCHANGED queue
       \/ /\ need = "Wait"
          /\ workers' = [workers EXCEPT ![w] = [pc |-> "wait", job |-> NoJob, deadline |-> 0]]
          /\ UNCHANGED queue
       \/ /\ need = "WaitTimeout"
          /\ workers' = [workers EXCEPT ![w] =
                           [pc |-> "wait_until", job |-> NoJob, deadline |-> PeekTime(queue)]]
          /\ UNCHANGED queue
       \/ /\ need = "Break"
          /\ \E j \in Peek(queue) :
               /\ queue' = queue (-) SetToBag({j})
               /\ workers' = [workers EXCEPT ![w] = [pc |-> "run_job", job |-> j, deadline |-> 0]]
  /\ UNCHANGED <<now, shutdown, on_drop_behavior, canceled, nextToken, pool,
                 typeOf, delayOf, panicked>>

\* Condvar::wait_until returns because its deadline passed (lib.rs 415).
wait_until_timeout(w) ==
  /\ workers[w].pc = "wait_until"
  /\ workers[w].deadline <= now
  /\ workers' = [workers EXCEPT ![w] = Idle]
  /\ UNCHANGED <<now, queue, shutdown, on_drop_behavior, canceled, nextToken,
                 pool, typeOf, delayOf, panicked>>

\* ---- Worker::run_job (lib.rs 423-469) -----------------------------------
\* the load of the flag
run_job(w) ==
  /\ workers[w].pc = "run_job"
  /\ workers' = [workers EXCEPT ![w] =
                   IF IsCanceled(workers[w].job, canceled)
                   THEN Idle
                   ELSE [pc |-> "checked", job |-> workers[w].job, deadline |-> 0]]
  /\ UNCHANGED <<now, queue, shutdown, on_drop_behavior, canceled, nextToken,
                 pool, typeOf, delayOf, panicked>>

\* the call of the callable
invoke(w) ==
  /\ workers[w].pc = "checked"
  /\ workers' = [workers EXCEPT ![w].pc = "running"]
  /\ UNCHANGED <<now, queue, shutdown, on_drop_behavior, canceled, nextToken,
                 pool, typeOf, delayOf, panicked>>

\* Variant of callable_returns where a Once job falls through to the
\* resubmission of the recurring variants.
callable_returns_OnceResubmitted(w) ==
  /\ workers[w].pc = "running"
  /\ LET job == workers[w].job IN
       \E ret \in (IF job.type_ \in {DynamicRate, DynamicDelay} THEN 0..MaxRate ELSE {0}) :
         workers' = [workers EXCEPT ![w] =
                       IF job.type_ = Once
                       THEN [pc |-> "reschedule", job |-> job, deadline |-> 0]
                       ELSE IF Reschedules(job, ret)
                       THEN [pc |-> "reschedule", job |-> NewJob(job, ret, now), deadline |-> 0]
                       ELSE Idle]
  /\ UNCHANGED <<now, queue, shutdown, on_drop_behavior, canceled, nextToken,
                 pool, typeOf, delayOf, panicked>>

\* the callable returns; the recurring variants build the next Job
callable_returns(w) ==
  /\ workers[w].pc = "running"
  /\ LET job == workers[w].job IN
       \E ret \in (IF job.type_ \in {DynamicRate, DynamicDelay} THEN 0..MaxRate ELSE {0}) :
         workers' = [workers EXCEPT ![w] =
                       IF Reschedules(job, ret)
                       THEN [pc |-> "reschedule", job |-> NewJob(job, ret, now), deadline |-> 0]
                       ELSE Idle]
  /\ UNCHANGED <<now, queue, shutdown, on_drop_behavior, canceled, nextToken,
                 pool, typeOf, delayOf, panicked>>

\* the callable panics; catch_unwind in Worker::run takes over
callable_panics(w) ==
  /\ workers[w].pc = "running"
  /\ workers' = [workers EXCEPT ![w] = CatchUnwind(workers[w].job, now)]
  /\ panicked' = panicked \cup {workers[w].job.canceled}
  /\ UNCHANGED <<now, queue, shutdown, on_drop_behavior, canceled, nextToken,
                 pool, typeOf, delayOf>>

\* self.shared.run(new_job)
reschedule(w) ==
  /\ workers[w].pc = "reschedule"
  /\ LET res == SharedPoolRun(queue, shutdown, [workers EXCEPT ![w] = Idle], workers[w].job)
     IN /\ queue' = res.queue
        /\ workers' = res.workers
  /\ UNCHANGED <<now, shutdown, on_drop_behavior, canceled, nextToken, pool,
                 typeOf, delayOf, panicked>>

\* ---- the clock ----------------------------------------------------------
Tick ==
  /\ now < MaxTime
  /\ now' = now + 1
  /\ UNCHANGED <<queue, shutdown, on_drop_behavior, canceled, nextToken, workers,
                 pool, typeOf, delayOf, panicked>>

WorkerStep(w) ==
  \/ get_job(w)
  \/ wait_until_timeout(w)
  \/ run_job(w)
  \/ invoke(w)
  \/ callable_returns(w)
  \/ callable_panics(w)
  \/ reschedule(w)

Next ==
  \/ execute
  \/ execute_after
  \/ execute_at_fixed_rate
  \/ execute_at_dynamic_rate
  \/ execute_with_fixed_delay
  \/ execute_with_dynamic_delay
  \/ \E c \in Tokens : cancel(c)
  \/ drop_shutdown
  \/ drop_notify_all
  \/ \E w \in Workers : WorkerStep(w)
  \/ Tick

Spec == Init /\ [][Next]_vars

\* ---- scheduling ---------------------------------------------------------
\* Every worker thread that can take a step eventually takes one (the OS
\* schedules it, the mutex is eventually granted, the callable it runs
\* returns or panics), and the thread inside drop reaches its notify_all.
FairThreads ==
  /\ \A w \in Workers : WF_vars(WorkerStep(w))
  /\ WF_vars(drop_notify_all)

\* a pool built with the default policy, fair threads and a clock that advances
InitComplete == Init /\ on_drop_behavior = CompletePendingScheduled

SpecComplete ==
  /\ InitComplete
  /\ [][Next]_vars
  /\ FairThreads
  /\ WF_vars(Tick)

\* a pool built with RunPendingScheduledImmediately and fair threads; the
\* clock is free to stand still
InitImmediate == Init /\ on_drop_behavior = RunPendingScheduledImmediately

SpecImmediate ==
  /\ InitImmediate
  /\ [][Next]_vars
  /\ FairThreads

\* a pool built with any of the three policies, fair threads and a clock
\* that advances
SpecFair ==
  /\ Init
  /\ [][Next]_vars
  /\ FairThreads
  /\ WF_vars(Tick)

\* ======================================================================
\* Properties
\* ======================================================================
Holding(w) == workers[w].job # NoJob

\* the token has a Job in the queue or in a worker's hands
InQueue(c) == \E j \in Jobs(queue) : j.canceled = c
HeldBy(w, c) == Holding(w) /\ workers[w].job.canceled = c
Live(c) == InQueue(c) \/ \E w \in Workers : HeldBy(w, c)

\* the worker has passed the cancellation check of run_job for the token
PastCheck(c) == \E w \in Workers : HeldBy(w, c) /\ workers[w].pc \in {"checked", "running"}
Running(c) == \E w \in Workers : HeldBy(w, c) /\ workers[w].pc = "running"

\* the step pops a job into worker w's hands
Pops(w) == workers[w].pc = "get_job" /\ workers'[w].pc = "run_job"

\* C1: a worker that owns a popped job (before or while it runs it) got it
\* at or after its due time, unless the pool is shut down with the policy
\* RunPendingScheduledImmediately.
C1_NoEarlyPop ==
  \A w \in Workers :
    workers[w].pc \in {"run_job", "checked", "running"} =>
      \/ workers[w].job.time <= now
      \/ shutdown /\ on_drop_behavior = RunPendingScheduledImmediately

\* a worker popped, after shutdown under the default policy, a job due now
\* for which it had to wait, while a later job is still queued
C1_Witness ==
  /\ shutdown
  /\ on_drop_behavior = CompletePendingScheduled
  /\ now > 0
  /\ \E w \in Workers : workers[w].pc = "run_job" /\ workers[w].job.time = now
  /\ \E j \in Jobs(queue) : j.time > now

\* C2: when run_job finds the job's flag set, the worker drops the job: it
\* goes back to get_job without calling the callable, and the queue is left
\* as it is (nothing carrying the token is pushed).
C2_CanceledAtDispatchIsDiscarded ==
  [][\A w \in Workers :
       (/\ workers[w].pc = "run_job"
        /\ canceled[workers[w].job.canceled]
        /\ workers'[w] # workers[w])
       => workers'[w] = Idle /\ queue' = queue]_vars

\* a fixed-rate job that was canceled, never panicked, in a pool that is not
\* shut down, is gone: only the discard at dispatch ends such a job
C2_Witness ==
  \E c \in Tokens :
    /\ typeOf[c] = FixedRate
    /\ canceled[c]
    /\ c \notin panicked
    /\ ~shutdown
    /\ ~Live(c)

\* C3 as stated: once the flag of a recurring job is set, no worker starts
\* its callable.
C3_NeverStartsAfterCancel ==
  [][\A c \in Tokens :
       (canceled[c] /\ typeOf[c] \in Recurring) => (Running(c)' => Running(c))]_vars

\* C3 amended: once the flag of a recurring job is set and no worker is past
\* the cancellation check with it, no worker ever gets past the check with
\* it again, so its callable is never started again.
C3_NoStartAfterCancelUnlessPastCheck ==
  [][\A c \in Tokens :
       (canceled[c] /\ typeOf[c] \in Recurring /\ ~PastCheck(c)) => ~PastCheck(c)']_vars

\* a canceled fixed-delay job is gone (only the discard at dispatch ends it
\* in a pool that is alive) while no worker has terminated and a worker
\* runs another job
C3_Witness ==
  \E c \in Tokens :
    /\ typeOf[c] = FixedDelay
    /\ canceled[c]
    /\ c \notin panicked
    /\ ~Live(c)
    /\ ~shutdown
    /\ \A w \in Workers : workers[w].pc # "terminated"
    /\ \E d \in Tokens \ {c} : Running(d)

\* C4: no worker has terminated while shutdown is false.
C4_NoWorkerTerminatesBeforeShutdown ==
  \A w \in Workers : workers[w].pc = "terminated" => shutdown

\* a callable panicked, the pool is not shut down, and a Once job submitted
\* besides it has run to completion (it is gone, neither canceled nor panicked)
C4_Witness ==
  \E c \in Tokens, d \in Tokens :
    /\ c \in panicked
    /\ d > c
    /\ typeOf[d] = Once
    /\ ~canceled[d]
    /\ d \notin panicked
    /\ ~Live(d)
    /\ ~shutdown
    /\ \A w \in Workers : workers[w].pc = "get_job"

\* C5: a job whose callable panicked has no Job anywhere: not in the queue
\* and not in a worker's hands, so none is pushed later either.
C5_PanickedJobIsGone ==
  \A c \in panicked : ~Live(c)

\* a recurring job panicked and, later, with the pool alive and the flag
\* clear, the clock has moved on
C5_Witness ==
  \E c \in panicked :
    /\ typeOf[c] \in Recurring
    /\ ~canceled[c]
    /\ ~shutdown
    /\ now = MaxTime

\* C6: once shutdown is true nothing is added to the queue, and a job that
\* is gone (a recurring job whose execution finished after the drop) stays
\* gone.
C6_NoPushAfterShutdown ==
  [][shutdown =>
       /\ queue' \sqsubseteq queue
       /\ \A c \in Tokens : ~Live(c) => ~Live(c)']_vars

\* after the drop a fixed-rate job, neither canceled nor panicked, is gone:
\* its reschedule was dropped
C6_Witness ==
  \E c \in Tokens :
    /\ typeOf[c] = FixedRate
    /\ shutdown
    /\ ~canceled[c]
    /\ c \notin panicked
    /\ ~Live(c)
    /\ \E w \in Workers : workers[w].pc # "terminated"

\* C7: with CompletePendingScheduled, no worker has terminated while the
\* queue holds a job, and a job that is in the queue of a dropped pool with
\* a due time the clock reaches is eventually run, unless it is canceled.
C7_CompletePendingAreRun ==
  /\ [](on_drop_behavior = CompletePendingScheduled =>
          \A w \in Workers : workers[w].pc = "terminated" => queue = EmptyBag)
  /\ \A c \in Tokens :
       (/\ shutdown
        /\ on_drop_behavior = CompletePendingScheduled
        /\ \E j \in Jobs(queue) : j.canceled = c /\ j.time <= MaxTime)
       ~> (Running(c) \/ canceled[c])

\* after the drop, a job that had to wait for its due time is running while
\* no worker has terminated with the queue non-empty
C7_Witness ==
  /\ shutdown
  /\ on_drop_behavior = CompletePendingScheduled
  /\ now > 0
  /\ \E c \in Tokens, w \in Workers :
       /\ HeldBy(w, c)
       /\ workers[w].pc = "running"
       /\ workers[w].job.time = now
       /\ delayOf[c] > 0
  /\ \E w \in Workers : workers[w].pc = "terminated"

\* C9: with RunPendingScheduledImmediately, once drop has notified the
\* workers none of them waits for a due time, and a job that is in the queue
\* of a dropped pool is eventually run, unless it is canceled, whether or
\* not the clock ever reaches its due time.
C9_ImmediateRunsPending ==
  /\ []((on_drop_behavior = RunPendingScheduledImmediately /\ pool = "dropped") =>
          \A w \in Workers : workers[w].pc # "wait_until")
  /\ \A c \in Tokens :
       (/\ shutdown
        /\ on_drop_behavior = RunPendingScheduledImmediately
        /\ InQueue(c))
       ~> (Running(c) \/ canceled[c])

\* after the drop a job runs before its due time
C9_Witness ==
  /\ shutdown
  /\ on_drop_behavior = RunPendingScheduledImmediately
  /\ \E c \in Tokens, w \in Workers :
       /\ HeldBy(w, c)
       /\ workers[w].pc = "running"
       /\ workers[w].job.time > now

\* C8: with DiscardPendingScheduled the queue never changes once shutdown
\* is set: nothing is popped (and nothing pushed).
C8_DiscardPopsNothingAfterShutdown ==
  [][(shutdown /\ on_drop_behavior = DiscardPendingScheduled) => queue' = queue]_vars

\* every worker has terminated and left a job in the queue whose due time
\* has passed
C8_Witness ==
  /\ shutdown
  /\ on_drop_behavior = DiscardPendingScheduled
  /\ \A w \in Workers : workers[w].pc = "terminated"
  /\ \E j \in Jobs(queue) : j.time < now /\ ~canceled[j.canceled]

\* C10 as stated, for two Once jobs submitted at the same instant: the
\* callable of the job with the longer delay is not running while the job
\* with the shorter delay is still waiting to be run.
OnceJobsAt(pcs) ==
  {workers[w].job : w \in {v \in Workers : workers[v].pc \in pcs /\ workers[v].job.type_ = Once}}

SubmittedAt(j) == j.time - delayOf[j.canceled]

C11_OnceRunsExactlyOnce ==
  /\ [][\A c \in Tokens :
          typeOf[c] = Once =>
            /\ (Running(c) /\ ~Running(c)') => ~Live(c)'
            /\ ~Live(c) => ~Live(c)']_vars
  /\ \A c \in Tokens :
       (\E j \in Jobs(queue) : j.canceled = c /\ j.type_ = Once /\ j.time <= MaxTime)
       ~> (Running(c) \/ canceled[c] \/ shutdown)

\* as many zero-delay Once jobs as there are submissions have all run to
\* completion in a pool that is alive: none is left, canceled or panicked
C11_Witness ==
  /\ ~shutdown
  /\ nextToken = MaxJobs + 1
  /\ panicked = {}
  /\ \A c \in Tokens :
       typeOf[c] = Once /\ delayOf[c] = 0 /\ ~canceled[c] /\ ~Live(c)

\* the step in which worker w's callable returns and the next Job is built
Rebuilds(w) == workers[w].pc = "running" /\ workers'[w].pc = "reschedule"

\* the step in which worker w hands its new Job to SharedPool::run
Resubmits(w) == workers[w].pc = "reschedule" /\ workers'[w].pc # "reschedule"

\* C12: the Job built after a FixedRate execution is due at the due time of
\* the instance just run plus the rate, and after a DynamicRate execution at
\* that due time plus the returned rate, whatever the clock shows; it keeps
\* the variant and the token, and it is the Job pushed unless the pool is
\* shut down.
C12_RateCountsFromDueTime ==
  [][\A w \in Workers :
       /\ (Rebuilds(w) /\ workers[w].job.type_ \in {FixedRate, DynamicRate}) =>
            /\ workers'[w].job.type_ = workers[w].job.type_
            /\ workers'[w].job.canceled = workers[w].job.canceled
            /\ workers[w].job.type_ = FixedRate =>
                 /\ workers'[w].job.rate = workers[w].job.rate
                 /\ workers'[w].job.time = workers[w].job.time + workers[w].job.rate
            /\ workers[w].job.type_ = DynamicRate =>
                 workers'[w].job.time - workers[w].job.time \in Rates
       /\ (Resubmits(w) /\ workers[w].job.type_ \in {FixedRate, DynamicRate} /\ ~shutdown) =>
            queue' = queue (+) SetToBag({workers[w].job})]_vars

\* a fixed-rate execution ended so late that the next instance is already
\* overdue when it is built
C12_Witness ==
  \E w \in Workers :
    /\ workers[w].pc = "reschedule"
    /\ workers[w].job.type_ = FixedRate
    /\ workers[w].job.time < now
    /\ ~shutdown

\* C13: the Job built after a FixedDelay execution is due at the time the
\* callable completed plus the delay, and after a DynamicDelay execution at
\* that time plus the returned delay; it keeps the variant and the token, it
\* is the Job pushed unless the pool is shut down, and a worker that owns a
\* popped delay job in a pool that is not shut down got it at or after that
\* due time.
C13_DelayCountsFromCompletion ==
  [][\A w \in Workers :
       /\ (Rebuilds(w) /\ workers[w].job.type_ \in {FixedDelay, DynamicDelay}) =>
            /\ workers'[w].job.type_ = workers[w].job.type_
            /\ workers'[w].job.canceled = workers[w].job.canceled
            /\ workers[w].job.type_ = FixedDelay =>
                 /\ workers'[w].job.rate = workers[w].job.rate
                 /\ workers'[w].job.time = now + workers[w].job.rate
            /\ workers[w].job.type_ = DynamicDelay =>
                 workers'[w].job.time - now \in Rates
       /\ (Resubmits(w) /\ workers[w].job.type_ \in {FixedDelay, DynamicDelay} /\ ~shutdown) =>
            queue' = queue (+) SetToBag({workers[w].job})
       /\ (Pops(w) /\ workers'[w].job.type_ \in {FixedDelay, DynamicDelay} /\ ~shutdown) =>
            workers'[w].job.time <= now]_vars

\* a fixed-delay execution that started late has ended and the next
\* instance is due one delay after the end, not one delay after the last
\* due time
C13_Witness ==
  \E w \in Workers :
    /\ workers[w].pc = "reschedule"
    /\ workers[w].job.type_ = FixedDelay
    /\ now = MaxTime
    /\ workers[w].job.time = now + workers[w].job.rate
    /\ ~shutdown

Dynamic == {DynamicRate, DynamicDelay}

\* C14: when the callable of a DynamicRate or DynamicDelay job ends, either a
\* new Job is built whose due time lies a returned duration after the base
\* time, or nothing is built and the job is gone; the Job built is pushed
\* exactly when shutdown is false, a Job of a dynamic variant enters the
\* queue only in that way or by its submission, and a dynamic job that is
\* gone stays gone.
C14_DynamicResubmittedIffDuration ==
  [][/\ \A w \in Workers :
          /\ (workers[w].pc = "running" /\ workers'[w].pc # "running"
                /\ workers[w].job.type_ \in Dynamic) =>
               \/ /\ Rebuilds(w)
                  /\ workers'[w].job.canceled = workers[w].job.canceled
                  /\ workers'[w].job.time
                       - (IF workers[w].job.type_ = DynamicRate THEN workers[w].job.time ELSE now)
                       \in Rates
               \/ /\ workers'[w] = Idle
                  /\ ~Live(workers[w].job.canceled)'
          /\ (Resubmits(w) /\ workers[w].job.type_ \in Dynamic) =>
               queue' = IF shutdown THEN queue ELSE queue (+) SetToBag({workers[w].job})
     /\ \A c \in Tokens :
          /\ (typeOf[c] \in Dynamic /\ ~InQueue(c) /\ InQueue(c)') =>
               \E w \in Workers : Resubmits(w) /\ HeldBy(w, c) /\ ~shutdown
          /\ (typeOf[c] \in Dynamic /\ ~Live(c)) => ~Live(c)']_vars

\* a dynamic job that was neither canceled nor interrupted by a panic or a
\* shutdown is gone: its callable returned no duration
C14_Witness ==
  \E c \in Tokens :
    /\ typeOf[c] \in Dynamic
    /\ ~Live(c)
    /\ ~canceled[c]
    /\ c \notin panicked
    /\ ~shutdown

\* C15: a step that changes a cancellation flag sets one flag to true and
\* changes nothing else: the queue, the shutdown flag and every worker stay
\* as they are; and no step ever sets a flag back to false.  (cancel is the
\* one store of true whatever the flag holds and wherever the job is, so a
\* repeated or late cancel() is a step that leaves every variable as it is.)
C15_CancelOnlySetsFlag ==
  [][/\ \A c \in Tokens : canceled[c] => canceled'[c]
     /\ canceled' # canceled =>
          /\ \E c \in Tokens : canceled' = [canceled EXCEPT ![c] = TRUE]
          /\ queue' = queue
          /\ shutdown' = shutdown
          /\ workers' = workers
          /\ now' = now
          /\ nextToken' = nextToken
          /\ pool' = pool]_vars

\* one canceled job is still in the queue and another canceled job's
\* callable is still running
C15_Witness ==
  \E c, d \in Tokens :
    /\ c # d
    /\ canceled[c] /\ InQueue(c)
    /\ canceled[d] /\ Running(d)

\* C16: every pop takes out of the queue a job of any variant whose due time
\* is least among the jobs queued at that moment, under every drop policy and
\* before and after shutdown; so of two queued jobs with distinct due times
\* the later one is never popped while the earlier one is still queued.
C16_PopReturnsMinimum ==
  [][\A w \in Workers :
       Pops(w) =>
         /\ workers'[w].job \in Jobs(queue)
         /\ queue' = queue (-) SetToBag({workers'[w].job})
         /\ \A i \in Jobs(queue) : workers'[w].job.time <= i.time]_vars

\* after shutdown under RunPendingScheduledImmediately a worker has popped a
\* job while a job with a later due time, not yet due, is left in the queue
C16_Witness ==
  \E w \in Workers, k \in Jobs(queue) :
    /\ shutdown
    /\ on_drop_behavior = RunPendingScheduledImmediately
    /\ workers[w].pc = "run_job"
    /\ workers[w].job.time < k.time
    /\ now < k.time

Terminated(w) == workers[w].pc = "terminated"

\* C17: after the pool is dropped every worker eventually terminates, under
\* each of the three drop policies (the queued due times being ones the
\* clock reaches).  Once drop has returned no worker is in the untimed wait,
\* and only under CompletePendingScheduled is a worker in the timed wait.
C17_WorkersTerminateAfterDrop ==
  /\ [](pool = "dropped" =>
          \A w \in Workers :
            /\ workers[w].pc # "wait"
            /\ workers[w].pc = "wait_until" =>
                 on_drop_behavior = CompletePendingScheduled)
  /\ (shutdown /\ \A j \in Jobs(queue) : j.time <= MaxTime)
       ~> (\A w \in Workers : Terminated(w))

\* every submission was made, drop has returned and every worker has
\* terminated
C17_Witness ==
  /\ pool = "dropped"
  /\ \A w \in Workers : Terminated(w)
  /\ nextToken = MaxJobs + 1

Waiting(w) == workers[w].pc \in {"wait", "wait_until"}

\* C18: a step that pushes a job (a submission or a resubmission, shutdown
\* being false) wakes every waiting worker when the queue was empty or the
\* job's due time is strictly earlier than the earliest queued due time, and
\* otherwise (equal or later) leaves every waiting worker waiting as it was.
C18_PushWakesIffNewEarliest ==
  [][\A j \in Jobs(queue') :
       queue' = queue (+) SetToBag({j}) =>
         /\ ~shutdown
         /\ IF queue = EmptyBag \/ j.time < PeekTime(queue)
            THEN \A w \in Workers : Waiting(w) => workers'[w] = Idle
            ELSE \A w \in Workers : Waiting(w) => workers'[w] = workers[w]]_vars

\* a worker went into its timed wait before the instant of its deadline and
\* is still in it, although a Once job due no earlier than that deadline
\* was submitted at or after that instant
C18_Witness ==
  \E w \in Workers, k \in Jobs(queue) :
    /\ workers[w].pc = "wait_until"
    /\ workers[w].deadline <= now
    /\ k.type_ = Once
    /\ SubmittedAt(k) >= workers[w].deadline
    /\ ~shutdown

\* C19: a worker in the timed wait while the queue is not empty has a
\* deadline that is not later than the earliest due time in the queue.
C19_TimedWaitDeadlineNotPastEarliest ==
  \A w \in Workers :
    (workers[w].pc = "wait_until" /\ queue # EmptyBag) =>
      workers[w].deadline <= PeekTime(queue)

\* a worker is in the timed wait until the due time of the earliest queued
\* job while a job with a later due time is queued behind it
C19_Witness ==
  \E w \in Workers, k \in Jobs(queue) :
    /\ workers[w].pc = "wait_until"
    /\ workers[w].deadline = PeekTime(queue)
    /\ workers[w].deadline < k.time
    /\ ~shutdown

\* C20: no wake-up is lost.  A worker is in the untimed wait only while the
\* queue is empty, and only while shutdown is false or the thread that set
\* it has not yet left drop, whose next statement wakes every waiter; once
\* drop has returned no worker is in the untimed wait.
C20_NoLostWakeUp ==
  \A w \in Workers :
    workers[w].pc = "wait" =>
      /\ queue = EmptyBag
      /\ shutdown => pool = "dropping"

\* every worker is in the untimed wait when drop has set shutdown and is
\* about to notify
C20_Witness ==
  /\ pool = "dropping"
  /\ \A w \in Workers : workers[w].pc = "wait"
  /\ nextToken > 1

\* the workers that own a Job carrying token c
Holders(c) == {w \in Workers : HeldBy(w, c)}

\* C21: for every token at most one Job carrying it exists at any time: it
\* is in the queue once, or owned by one worker, never both and never twice;
\* so at most one worker runs the callable of a job at a time.
C21_OneInstancePerToken ==
  \A c \in Tokens :
    /\ \A j \in Jobs(queue) : j.canceled = c => CopiesIn(j, queue) = 1
    /\ Cardinality({j \in Jobs(queue) : j.canceled = c}) + Cardinality(Holders(c)) <= 1

\* the callable of a fixed-rate job is still running when the due time of
\* its next instance has passed, and the other worker waits with nothing to
\* run
C21_Witness ==
  \E w \in Workers, v \in Workers :
    /\ workers[w].pc = "running"
    /\ workers[w].job.type_ = FixedRate
    /\ workers[w].job.time + workers[w].job.rate <= now
    /\ workers[v].pc = "wait"
    /\ ~shutdown

\* a worker has loaded the flag of the job with token c, found it false and
\* has not yet called the callable
AtCheck(c) == \E w \in Workers : HeldBy(w, c) /\ workers[w].pc = "checked"

\* C22: once the flag of a job is set its callable is started at most once
\* more.  A callable is started only by the worker that has passed the
\* cancellation check with the job, which thereby leaves that position; with
\* the flag set no worker gets past the check with the job any more, so the
\* one start left belongs to a worker that passed the check before the flag
\* was set; and every dispatch with the flag set discards the job for good.
C22_AtMostOneStartAfterCancel ==
  [][/\ \A c \in Tokens :
          /\ (canceled[c] /\ ~AtCheck(c)) => ~AtCheck(c)'
          /\ (~Running(c) /\ Running(c)') => (AtCheck(c) /\ ~AtCheck(c)')
     /\ \A w \in Workers :
          (workers[w].pc = "run_job" /\ workers'[w].pc # "run_job"
             /\ canceled[workers[w].job.canceled]) =>
            /\ workers'[w] = Idle
            /\ ~Live(workers[w].job.canceled)']_vars

\* the flag of a recurring job was set after a worker passed the check with
\* it and before that worker called the callable
C22_Witness ==
  \E c \in Tokens :
    /\ canceled[c]
    /\ AtCheck(c)
    /\ typeOf[c] \in Recurring
    /\ ~shutdown
====
